---- MODULE Spec2Model ----
(***************************************************************************)
(* Model of build-samples.sh, the sequential build-validation harness.     *)
(*                                                                         *)
(* The script is a bash program run under `set -e`.  Its state is the      *)
(* shell variables (samples, results, total_samples, successful, failed),  *)
(* the position in the script, the console output and the exit status.     *)
(* The environment is the file tree under samples/ and the exit statuses   *)
(* of the subprocesses (npm ci, npm run build, npx tsc).                   *)
(*                                                                         *)
(* Text is modelled as sequences of one-character strings so that          *)
(* `npm run | grep -q "build"` is a real substring search.                 *)
(***************************************************************************)
EXTENDS Integers, Sequences, FiniteSets, TLC

\* ------------------------------------------------------------------ bounds
\* Largest number of sample directories in the file tree.
MaxUnits == 2

\* ------------------------------------------------------------------- text
\* The pattern of `grep -q "build"` (line 44).
BuildPattern == <<"b", "u", "i", "l", "d">>

NL == <<"\n">>

\* grep -q pat: exit 0 iff some line of the input contains pat as a
\* substring.  pat holds no newline, so searching the whole text is the same.
GrepQ(text, pat) ==
    \E k \in 0..(Len(text) - Len(pat)) : SubSeq(text, k + 1, k + Len(pat)) = pat

\* ------------------------------------------------------ manifests (inputs)
\* A manifest is the list of the script names its package.json declares, in
\* declaration order.
Manifests == { <<>>, <<"build">>, <<"prebuild">>, <<"start">> }

\* The text of a script name as `npm run` prints it.
ScriptName(id) ==
    CASE id = "build"    -> <<"b", "u", "i", "l", "d">>
      [] id = "prebuild" -> <<"p", "r", "e", "b", "u", "i", "l", "d">>
      [] id = "start"    -> <<"s", "t", "a", "r", "t">>

\* The command text of a script as `npm run` prints it.
ScriptCmd(id) ==
    CASE id = "build"    -> <<"t", "s", "c">>
      [] id = "prebuild" -> <<"r", "m">>
      [] id = "start"    -> <<"n", "o", "d", "e">>

\* The manifest declares a script whose name is exactly "build".
DeclaresBuild(m) == \E k \in DOMAIN m : m[k] = "build"

\* Files of a unit that `find . -name "*.ts"` can see, as path segments below
\* the unit directory.
FileSrcTs == <<"index.ts">>
FileDepTs == <<"node_modules", "dep.d.ts">>
FileSets  == { {}, {FileSrcTs}, {FileDepTs} }

\* One sample directory: its manifest, whether tsconfig.json is present, and
\* its .ts files.
UnitKinds == [manifest : Manifests, tsconfig : BOOLEAN, files : FileSets]

RECURSIVE SeqsUpTo(_, _)
SeqsUpTo(S, n) ==
    IF n = 0 THEN { <<>> }
    ELSE LET shorter == SeqsUpTo(S, n - 1)
         IN  shorter \cup { Append(s, x) : s \in { t \in shorter : Len(t) = n - 1 }, x \in S }

\* File trees: the sample directories in the order `find` visits them.
Trees == SeqsUpTo(UnitKinds, MaxUnits)

\* -------------------------------------------------------------- external tools
\* Output of `npm run` (line 44): nothing when the manifest declares no
\* scripts, otherwise a header line and, per script, its name and command.
NpmRunHeader == <<"S", "c", "r", "i", "p", "t", "s", ":">>

RECURSIVE NpmRunLines(_)
NpmRunLines(m) ==
    IF m = <<>> THEN <<>>
    ELSE ScriptName(Head(m)) \o NL \o ScriptCmd(Head(m)) \o NL \o NpmRunLines(Tail(m))

NpmRunOutput(m) == IF m = <<>> THEN <<>> ELSE NpmRunHeader \o NL \o NpmRunLines(m)

\* Line 44: `npm run | grep -q "build"` (no pipefail: grep's status).
HasBuildText(u) == GrepQ(NpmRunOutput(u.manifest), BuildPattern)

\* Lines 52-53: find . -name "*.ts" -not -path "./node_modules/*".
LenientFiles(u) == { f \in u.files : f[1] # "node_modules" }

\* Variant of Strategy with the tsconfig.json test ahead of the build-script
\* test.
StrategyTsconfigFirst(u) ==
    IF u.tsconfig THEN "npx tsc --noEmit"
    ELSE IF HasBuildText(u) THEN "npm run build"
    ELSE IF LenientFiles(u) # {} THEN "npx tsc --noEmit --skipLibCheck"
    ELSE "none"

\* Lines 44-57: which branch of the if / elif / else chain runs.
Strategy(u) ==
    IF HasBuildText(u) THEN "npm run build"
    ELSE IF u.tsconfig THEN "npx tsc --noEmit"
    ELSE IF LenientFiles(u) # {} THEN "npx tsc --noEmit --skipLibCheck"
    ELSE "none"

\* Exit status of `npm run build`: npm fails with "Missing script" when the
\* manifest has no script named build, otherwise the script's own status.
NpmRunBuildOk(u, toolOk) == DeclaresBuild(u.manifest) /\ toolOk

\* Exit status (TRUE = 0) of the command that branch st runs for unit u.
ToolOk(u, st, toolOk) ==
    IF st = "npm run build" THEN NpmRunBuildOk(u, toolOk) ELSE toolOk

Cmd(s, cmd, ok) == [unit |-> s, cmd |-> cmd, ok |-> ok]

\* Variant of StepCommands that runs npm ci a second time when it failed.
StepCommandsRetry(s, st, installOk, toolStatus) ==
    <<[unit |-> s, cmd |-> "npm ci", ok |-> installOk]>>
    \o (IF installOk
        THEN <<[unit |-> s, cmd |-> "npm run", ok |-> TRUE]>>
             \o (IF st = "none" THEN <<>>
                 ELSE <<[unit |-> s, cmd |-> st, ok |-> toolStatus]>>)
        ELSE <<[unit |-> s, cmd |-> "npm ci", ok |-> FALSE]>>)

\* Lines 43-58: the commands the condition list runs for the unit with
\* identifier s and selected branch st, with their exit statuses.
StepCommands(s, st, installOk, toolStatus) ==
    <<Cmd(s, "npm ci", installOk)>>
    \o (IF installOk
        THEN <<Cmd(s, "npm run", TRUE)>>
             \o (IF st = "none" THEN <<>> ELSE <<Cmd(s, st, toolStatus)>>)
        ELSE <<>>)

\* Variant of StepOk for `npm ci; { ... }`: the status of npm ci is dropped.
StepOkIgnoringInstall(st, installOk, toolStatus) ==
    st = "none" \/ toolStatus

\* Lines 43-58: exit status (TRUE = 0) of `npm ci && { ... }`.
StepOk(st, installOk, toolStatus) ==
    /\ installOk
    /\ (st = "none" \/ toolStatus)

\* --------------------------------------------------------------- the shell
\* Exit status of the arithmetic command ((x++)) (lines 61, 65): the value of
\* the expression is the OLD value of x, and the status is 1 when it is 0.
ArithPostIncStatus(old) == IF old = 0 THEN 1 ELSE 0

\* Variant of FinalStatus for `[ $failed -gt 1 ]`.
FinalStatusOffByOne(f) == IF f > 1 THEN 1 ELSE 0

\* Lines 92-98: the exit status chosen from the failure counter.
FinalStatus(f) == IF f > 0 THEN 1 ELSE 0

\* ------------------------------------------------------------- path texts
\* A path as the text find prints: a sequence of tokens, each a name word,
\* "/" or " ".  A directory called `my app` is the tokens "my", " ", "app".
PathA        == <<"samples", "/", "a">>
PathSub      == <<"samples", "/", "a", "/", "sub">>
PathDep      == <<"samples", "/", "a", "/", "node_modules", "/", "dep">>
PathMyApp    == <<"samples", "/", "my", " ", "app">>
PathB        == <<"samples", "/", "b">>
PathPkgJson  == <<"samples", "/", "package-json">>

InDir(dir, name) == dir \o <<"/", name>>

\* The regular files a repository may hold under samples/, in the order find
\* visits them.
FsUniverse ==
    << InDir(PathA, "package.json"),
       InDir(PathA, "index.ts"),
       InDir(PathDep, "package.json"),
       InDir(PathSub, "package.json"),
       InDir(PathMyApp, "package.json"),
       InDir(PathB, "tsconfig.json"),
       InDir(PathB, "package.json"),
       InDir(PathPkgJson, "package.json") >>

\* -not -path "*/node_modules/*": the text holds "/node_modules/".
UnderNodeModules(p) ==
    \E i \in 1..(Len(p) - 2) :
        p[i] = "/" /\ p[i + 1] = "node_modules" /\ p[i + 2] = "/"

\* -name "package.json": the last component of the path.
IsManifest(p) == Len(p) >= 2 /\ p[Len(p)] = "package.json" /\ p[Len(p) - 1] = "/"

\* find samples -name "package.json" -not -path "*/node_modules/*" -type f,
\* over the regular files `files`: one line per match.
FindManifests(files) ==
    SelectSeq(FsUniverse, LAMBDA p : p \in files /\ IsManifest(p) /\ ~UnderNodeModules(p))

\* The words the regular expression package.json matches whole: its "." is
\* any one character.
SedPatternWords == {"package.json", "package-json"}

\* sed 's|/package.json||': the first match in the line is removed.
SedStrip(line) ==
    LET hits == { i \in 1..(Len(line) - 1) :
                    line[i] = "/" /\ line[i + 1] \in SedPatternWords }
    IN  IF hits = {} THEN line
        ELSE LET i == CHOOSE h \in hits : \A g \in hits : h <= g
             IN  SubSeq(line, 1, i - 1) \o SubSeq(line, i + 2, Len(line))

\* Word splitting of an unquoted expansion: the text is cut at every " " and
\* empty words are dropped.
RECURSIVE WordSplit(_)
WordSplit(text) ==
    LET blanks == { i \in DOMAIN text : text[i] = " " }
    IN  IF blanks = {} THEN (IF text = <<>> THEN <<>> ELSE <<text>>)
        ELSE LET i == CHOOSE b \in blanks : \A c \in blanks : b <= c
             IN  (IF i = 1 THEN <<>> ELSE <<SubSeq(text, 1, i - 1)>>)
                 \o WordSplit(SubSeq(text, i + 1, Len(text)))

RECURSIVE SplitLines(_)
SplitLines(lines) ==
    IF lines = <<>> THEN <<>>
    ELSE WordSplit(SedStrip(Head(lines))) \o SplitLines(Tail(lines))

\* Line 11: samples=($(find ... | sed 's|/package.json||')): the array
\* elements are the words of the unquoted command substitution.
DiscoverPaths(files) == SplitLines(FindManifests(files))

\* The .ts files a unit directory may hold, as path components below it.
FileNestedDepTs == <<"sub", "node_modules", "dep.d.ts">>
FileNestedSrcTs == <<"src", "util.ts">>
UnitFileUniverse == {FileSrcTs, FileDepTs, FileNestedDepTs, FileNestedSrcTs}


\* user running the script.
RootStates == {"present", "missing", "unreadable"}

\* Line 11: the identifiers `find samples ... | sed ...` yields.  find prints
\* nothing (and an error on stderr) when samples is missing or unreadable; the
\* status of the pipeline is sed's, so the assignment succeeds.
FindSamples(root, t) == IF root = "present" THEN [k \in 1..Len(t) |-> k] ELSE <<>>

\* Variant of NoSamples for `[ ${#samples[@]} -lt 0 ]`.
NoSamplesNever(arr) == Len(arr) < 0

\* Line 13: [ ${#samples[@]} -eq 0 ]
NoSamples(arr) == Len(arr) = 0

\* ------------------------------------------------------------------- state
VARIABLES
    tree,           \* environment: the sample directories under samples/
    rootDir,        \* environment: the directory samples itself
    arithErrexit,   \* environment: the bash running the script applies set -e
                    \* to (( )) commands (bash >= 4.1) or not (bash 4.0)
    pc,             \* position in the script
    samples,        \* the array samples (line 11): unit identifiers
    idx,            \* position of the for loop in samples (line 36)
    results,        \* the associative array results (line 27)
    total_samples,  \* line 28
    successful,     \* line 29
    failed,         \* line 30
    invoked,        \* subprocesses run so far: [unit (0 = root), cmd, ok]
    out,            \* console output: records [tag, unit, n]
    status,         \* exit status, meaningful when pc = "exited"
    wfPhase,        \* workflow: "idle", "build", "summary done" position
    wfMatrix,       \* workflow: the matrix of units made by discover-samples
    wfArtifacts,    \* workflow: the result artifact saved by each unit's job
    wfLog,          \* workflow: the commands the build jobs ran, with statuses
    wfStatus,       \* workflow: the status of the whole workflow (0 = green)
    findPc,         \* the find command lines on their own: which one is run
    fsFiles,        \* line 11: the regular files under samples/ (path texts)
    fsFound,        \* line 11: the elements of the array samples
    ufFiles,        \* lines 52-53: the .ts files below a unit directory
    ufExists,       \* line 52: the result of the existence test
    ufArgs,         \* line 53: the files handed to npx tsc
    rbPc,           \* configure-search-rbac.sh: position in the script
    rbUser,         \* CURRENT_USER_OBJECT_ID (line 52)
    rbId,           \* MANAGED_IDENTITY_PRINCIPAL_ID (line 202)
    rbRetry,        \* RETRY_COUNT (line 203)
    rbAnswers,      \* what each principal-ID query returned, in order
    rbRole,         \* position of the for loop in RBAC_ROLES (line 303)
    rbCalls,        \* az / curl commands that change or assign: [cmd, role, ok]
    rbOut,          \* console output: message tags
    rbStatus,       \* exit status, meaningful when rbPc = "exited"
    csPc,           \* search-resource creation script: position in the script
    csValidation,   \* environment: the text the --validate-only call prints
    csReply,        \* environment: the user's keystroke at the confirmation
    csCalls,        \* az commands run: [cmd, ok]
    csOut,          \* console output: message tags
    csService,      \* the search service exists
    csEnvFile,      \* the file sample-search.env was written
    csStatus,       \* exit status, meaningful when csPc = "exited"
    agPc,           \* agentic-retrieval sample: position in main
    agPreexisting,  \* environment: an agent of that name existed at the start
    agAgent,        \* service: the knowledge agent exists
    agIndex,        \* service: the search index exists
    agFetched,      \* what the GitHub fetch gave fetchEarthAtNightDocuments
    agDocs,         \* the documents fetchEarthAtNightDocuments returned
    agHistory,      \* the array messages of runAgenticRetrieval
    agCalls,        \* message lists passed to callAgenticRetrieval, in order
    agLog,          \* service requests made: [op, status]
    agSteps,        \* the steps of main begun so far, in order
    agThrew,        \* the step of main that threw, "" when none
    agOut,          \* console output: message tags
    agExit          \* process exit code, -1 while running

\* The variables of the script and those of the workflow.
scriptvars == <<tree, rootDir, arithErrexit, pc, samples, idx, results,
                total_samples, successful, failed, invoked, out, status>>

wfvars == <<wfPhase, wfMatrix, wfArtifacts, wfLog, wfStatus>>

findvars == <<findPc, fsFiles, fsFound, ufFiles, ufExists, ufArgs>>

rbacvars == <<rbPc, rbUser, rbId, rbRetry, rbAnswers, rbRole, rbCalls, rbOut, rbStatus>>

createvars == <<csPc, csValidation, csReply, csCalls, csOut, csService, csEnvFile, csStatus>>

agentvars == <<agPc, agPreexisting, agAgent, agIndex, agFetched, agDocs, agHistory,
               agCalls, agLog, agSteps, agThrew, agOut, agExit>>

\* The state of the sample scripts and programs.
samplevars == <<rbacvars, createvars, agentvars>>

\* The state of build-samples.sh, its workflow and the find lines.
buildvars == <<scriptvars, wfvars, findvars>>

vars == <<scriptvars, wfvars, findvars, samplevars>>

\* configure-search-rbac.sh is not running.
RbacIdle ==
    /\ rbPc = "idle"
    /\ rbUser = ""
    /\ rbId = ""
    /\ rbRetry = 0
    /\ rbAnswers = <<>>
    /\ rbRole = 0
    /\ rbCalls = <<>>
    /\ rbOut = <<>>
    /\ rbStatus = 0

\* The search-resource creation script is not running.
CreateIdle ==
    /\ csPc = "idle"
    /\ csValidation = <<>>
    /\ csReply = ""
    /\ csCalls = <<>>
    /\ csOut = <<>>
    /\ csService = FALSE
    /\ csEnvFile = FALSE
    /\ csStatus = 0

\* The agentic-retrieval sample is not running.
AgentIdle ==
    /\ agPc = "idle"
    /\ agPreexisting = FALSE
    /\ agAgent = FALSE
    /\ agIndex = FALSE
    /\ agFetched = <<>>
    /\ agDocs = <<>>
    /\ agHistory = <<>>
    /\ agCalls = <<>>
    /\ agLog = <<>>
    /\ agSteps = <<>>
    /\ agThrew = ""
    /\ agOut = <<>>
    /\ agExit = -1

\* None of the sample scripts and programs is running.
SamplesIdle == RbacIdle /\ CreateIdle /\ AgentIdle

Line(tag, unit, n) == [tag |-> tag, unit |-> unit, n |-> n]

Init ==
    /\ tree \in Trees
    /\ rootDir \in RootStates
    /\ rootDir = "missing" => tree = <<>>
    /\ arithErrexit \in BOOLEAN
    /\ pc = "discover"
    /\ samples = <<>>
    /\ idx = 0
    /\ results = <<>>
    /\ total_samples = 0
    /\ successful = 0
    /\ failed = 0
    /\ invoked = <<>>
    /\ out = <<>>
    /\ status = 0
    /\ wfPhase = "idle"
    /\ wfMatrix = <<>>
    /\ wfArtifacts = <<>>
    /\ wfLog = {}
    /\ wfStatus = 0
    /\ findPc = "idle"
    /\ fsFiles = {}
    /\ fsFound = <<>>
    /\ ufFiles = {}
    /\ ufExists = FALSE
    /\ ufArgs = {}
    /\ SamplesIdle

\* Lines 8-20: discovery; exit 1 when nothing was found.
Discover ==
    /\ pc = "discover"
    /\ LET found == FindSamples(rootDir, tree)
       IN  /\ samples' = found
           /\ IF NoSamples(found)
              THEN /\ out' = out \o <<Line("discovering", 0, 0), Line("no samples", 0, 0)>>
                   /\ pc' = "exited"
                   /\ status' = 1
              ELSE /\ out' = out \o <<Line("discovering", 0, 0), Line("found", 0, Len(found))>>
                                \o [k \in 1..Len(found) |-> Line("listed", found[k], 0)]
                   /\ pc' = "root install"
                   /\ status' = status
    /\ UNCHANGED <<tree, rootDir, arithErrexit, idx, results, total_samples, successful,
                   failed, invoked>>
    /\ UNCHANGED <<wfvars, findvars, samplevars>>

\* Lines 22-33: npm ci in the repository root (under set -e), then the
\* counters are initialised.
\* Variant of ErrexitStops in which a failing command is ignored.
ErrexitStopsNever(ok) == FALSE

\* Line 6, set -e: a simple command that fails ends the script.
ErrexitStops(ok) == ~ok

\* Lines 22-33: the root install, then the counters and the loop banner.
RootInstall ==
    /\ pc = "root install"
    /\ \E ok \in BOOLEAN :
         /\ invoked' = Append(invoked, Cmd(0, "npm ci", ok))
         /\ IF ~ErrexitStops(ok)
            THEN /\ results' = <<>>
                 /\ total_samples' = Len(samples)
                 /\ successful' = 0
                 /\ failed' = 0
                 /\ idx' = 1
                 /\ out' = out \o <<Line("Installing root dependencies", 0, 0),
                                    Line("Building samples", 0, 0)>>
                 /\ pc' = "loop"
                 /\ status' = status
            ELSE /\ out' = Append(out, Line("Installing root dependencies", 0, 0))
                 /\ pc' = "exited"
                 /\ status' = 1
                 /\ UNCHANGED <<results, total_samples, successful, failed, idx>>
    /\ UNCHANGED <<tree, rootDir, arithErrexit, samples>>
    /\ UNCHANGED <<wfvars, findvars, samplevars>>

\* Lines 45, 48, 51, 55: the announcement(s) echoed by branch st for unit s.
StrategyEcho(st, s) ==
    CASE st = "npm run build"    -> <<Line("Running npm run build", s, 0)>>
      [] st = "npx tsc --noEmit" -> <<Line("Running TypeScript compiler", s, 0)>>
      [] st = "none" -> <<Line("Checking TypeScript syntax", s, 0),
                          Line("No TypeScript files found", s, 0)>>
      [] OTHER -> <<Line("Checking TypeScript syntax", s, 0)>>

\* Variant of Recorded in which an earlier failure taints later units.
RecordedTainted(ok) == IF ok /\ failed = 0 THEN "success" ELSE "failed"

\* Lines 60, 64: the value stored in results for the unit.
Recorded(ok) == IF ok THEN "success" ELSE "failed"

\* Variant of SetResult for results["$samples"]=v: `$samples` is the first
\* element of the array.
SetResultFirstKey(r, s, v) ==
    [k \in (DOMAIN r) \cup {samples[1]} |-> IF k = samples[1] THEN v ELSE r[k]]

\* results["$sample"]=v
SetResult(r, s, v) == [k \in (DOMAIN r) \cup {s} |-> IF k = s THEN v ELSE r[k]]

\* "${results[$sample]}": an unset key expands to the empty string.
GetResult(r, s) == IF s \in DOMAIN r THEN r[s] ELSE ""

\* Variant of FailedAfter in which the failure branch does not count.
FailedAfterNoIncrement(ok, n) == n

\* Variant of SuccessfulAfter in which a success is counted twice.
SuccessfulAfterTwice(ok, n) == IF ok THEN n + 2 ELSE n

\* Lines 61, 65: the counters after ((successful++)) or ((failed++)).
SuccessfulAfter(ok, n) == IF ok THEN n + 1 ELSE n
FailedAfter(ok, n) == IF ok THEN n ELSE n + 1

\* Lines 61, 65 under set -e (line 6): the arithmetic command's non-zero
\* status ends the script when the shell applies errexit to (( )).
Aborts(ok) ==
    /\ arithErrexit
    /\ ArithPostIncStatus(IF ok THEN successful ELSE failed) # 0

\* Lines 36-70: one iteration of the build loop, for samples[idx].
BuildSample ==
    /\ pc = "loop"
    /\ idx <= Len(samples)
    /\ LET s  == samples[idx]
           u  == tree[s]
           st == Strategy(u)
       IN  \E installOk \in BOOLEAN, toolOk \in BOOLEAN :
             LET toolStatus == ToolOk(u, st, toolOk)
                 ok == StepOk(st, installOk, toolStatus)
             IN  /\ invoked' = invoked \o StepCommands(s, st, installOk, toolStatus)
                 /\ out' = out \o <<Line("Building", s, 0)>>
                               \o (IF installOk THEN StrategyEcho(st, s) ELSE <<>>)
                               \o <<Line(IF ok THEN "SUCCESS" ELSE "FAILED", s, 0)>>
                 /\ results' = SetResult(results, s, Recorded(ok))
                 /\ successful' = SuccessfulAfter(ok, successful)
                 /\ failed' = FailedAfter(ok, failed)
                 /\ IF Aborts(ok)
                    THEN /\ pc' = "exited"
                         /\ status' = ArithPostIncStatus(IF ok THEN successful ELSE failed)
                         /\ idx' = idx
                    ELSE /\ pc' = IF idx = Len(samples) THEN "summary" ELSE "loop"
                         /\ status' = status
                         /\ idx' = idx + 1
    /\ UNCHANGED <<tree, rootDir, arithErrexit, samples, total_samples>>
    /\ UNCHANGED <<wfvars, findvars, samplevars>>

\* Variant of DetailLine for "${results[$samples]}": the first unit's status.
DetailLineFirstKey(r, s) ==
    IF GetResult(r, samples[1]) = "success" THEN Line("detail success", s, 0)
    ELSE Line("detail failed", s, 0)

\* Variant of DetailLine that prints the success marker whatever the status.
DetailLineAllSuccess(r, s) == Line("detail success", s, 0)

\* Lines 84-88: the detailed-results line of one unit.
DetailLine(r, s) ==
    IF GetResult(r, s) = "success" THEN Line("detail success", s, 0)
    ELSE Line("detail failed", s, 0)

\* Lines 72-90: the summary block and the detailed results.
PrintSummary ==
    /\ pc = "summary"
    /\ out' = out \o <<Line("BUILD SUMMARY", 0, 0),
                       Line("Total samples", 0, total_samples),
                       Line("Successful", 0, successful),
                       Line("Failed", 0, failed),
                       Line("Detailed Results", 0, 0)>>
                  \o [k \in 1..Len(samples) |-> DetailLine(results, samples[k])]
    /\ pc' = "final"
    /\ UNCHANGED <<tree, rootDir, arithErrexit, samples, idx, results, total_samples,
                   successful, failed, invoked, status>>
    /\ UNCHANGED <<wfvars, findvars, samplevars>>

\* Lines 91-98: the closing line and the exit status.
FinalExit ==
    /\ pc = "final"
    /\ out' = Append(out, Line(IF failed > 0 THEN "Some builds failed"
                               ELSE "All builds successful", 0, 0))
    /\ status' = FinalStatus(failed)
    /\ pc' = "exited"
    /\ UNCHANGED <<tree, rootDir, arithErrexit, samples, idx, results, total_samples,
                   successful, failed, invoked>>
    /\ UNCHANGED <<wfvars, findvars, samplevars>>

Next == Discover \/ RootInstall \/ BuildSample \/ PrintSummary \/ FinalExit

Spec == Init /\ [][Next]_vars

\* --------------------------------------------------- the parallel workflow
\* The GitHub Action (.github/workflows/build-samples.yml) as BUILD.md
\* describes it: a discovery job, one build job per unit run in parallel with
\* continue-on-error and without fail-fast, each saving its result to an
\* artifact, and a summary job that always runs after them.

\* BUILD.md "Build Strategy": the build method chosen for a unit.
WfStrategy(u) ==
    IF DeclaresBuild(u.manifest) THEN "npm run build"
    ELSE IF u.tsconfig THEN "npx tsc --noEmit"
    ELSE IF { f \in u.files : \A i \in DOMAIN f : f[i] # "node_modules" } # {}
         THEN "npx tsc --noEmit --skipLibCheck"
    ELSE "none"

\* The units of the matrix.
WfUnits == { wfMatrix[k] : k \in DOMAIN wfMatrix }

\* discover-samples: finds the sample directories and creates the matrix.
WfDiscover ==
    /\ wfPhase = "idle"
    /\ wfMatrix' = FindSamples(rootDir, tree)
    /\ IF FindSamples(rootDir, tree) = <<>>
       THEN wfPhase' = "done" /\ wfStatus' = 1
       ELSE wfPhase' = "build" /\ wfStatus' = wfStatus
    /\ UNCHANGED <<wfArtifacts, wfLog>>
    /\ UNCHANGED <<scriptvars, findvars, samplevars>>

\* build-samples, the matrix job of unit s: installs, builds, and saves its
\* success/failure status to an artifact.  Jobs run in any order and a failed
\* job stops no other (continue-on-error: true, fail-fast: false).
WfBuild(s) ==
    /\ wfPhase = "build"
    /\ s \in WfUnits
    /\ s \notin DOMAIN wfArtifacts
    /\ LET u  == tree[s]
           st == WfStrategy(u)
       IN  \E installOk \in BOOLEAN, toolOk \in BOOLEAN :
             /\ installOk \/ toolOk
             /\ wfArtifacts' = [k \in (DOMAIN wfArtifacts) \cup {s} |->
                                  IF k # s THEN wfArtifacts[k]
                                  ELSE IF installOk /\ (st = "none" \/ toolOk)
                                       THEN "success" ELSE "failed"]
             /\ wfLog' = wfLog \cup {Cmd(s, "npm ci", installOk)}
                               \cup (IF installOk /\ st # "none"
                                     THEN {Cmd(s, st, toolOk)} ELSE {})
    /\ UNCHANGED <<wfPhase, wfMatrix, wfStatus>>
    /\ UNCHANGED <<scriptvars, findvars, samplevars>>

\* Variant of WfSummaryReady for a workflow with fail-fast: the summary starts
\* as soon as one job has failed.
WfSummaryReadyFailFast ==
    \/ \A s \in WfUnits : s \in DOMAIN wfArtifacts
    \/ \E s \in DOMAIN wfArtifacts : wfArtifacts[s] = "failed"

\* build-summary `needs` the build job and runs with `if: always()`: it
\* starts once every matrix job has finished, failed or not.
WfSummaryReady == \A s \in WfUnits : s \in DOMAIN wfArtifacts

\* build-summary: downloads the artifacts, counts them, and fails the
\* workflow (exit 1) if any build failed.
WfSummary ==
    /\ wfPhase = "build"
    /\ WfSummaryReady
    /\ wfPhase' = "done"
    /\ wfStatus' = IF \E s \in DOMAIN wfArtifacts : wfArtifacts[s] = "failed"
                   THEN 1 ELSE 0
    /\ UNCHANGED <<wfMatrix, wfArtifacts, wfLog>>
    /\ UNCHANGED <<scriptvars, findvars, samplevars>>

WorkflowStep == WfDiscover \/ (\E s \in 1..Len(tree) : WfBuild(s)) \/ WfSummary

\* Units the workflow is run on.
WfUnitKinds == [manifest : { <<>>, <<"build">> }, tsconfig : BOOLEAN,
                files : { {}, {FileSrcTs} }]

\* The workflow alone, on a repository the script is not being run on.
WorkflowInit ==
    /\ tree \in SeqsUpTo(WfUnitKinds, MaxUnits)
    /\ rootDir \in RootStates
    /\ rootDir = "missing" => tree = <<>>
    /\ arithErrexit = TRUE
    /\ pc = "discover"
    /\ samples = <<>>
    /\ idx = 0
    /\ results = <<>>
    /\ total_samples = 0
    /\ successful = 0
    /\ failed = 0
    /\ invoked = <<>>
    /\ out = <<>>
    /\ status = 0
    /\ wfPhase = "idle"
    /\ wfMatrix = <<>>
    /\ wfArtifacts = <<>>
    /\ wfLog = {}
    /\ wfStatus = 0
    /\ findPc = "idle"
    /\ fsFiles = {}
    /\ fsFound = <<>>
    /\ ufFiles = {}
    /\ ufExists = FALSE
    /\ ufArgs = {}
    /\ SamplesIdle

WorkflowNext == WfDiscover \/ (\E s \in 1..Len(tree) : WfBuild(s)) \/ WfSummary

WorkflowSpec == WorkflowInit /\ [][WorkflowNext]_vars

\* A run of the script followed by a run of the workflow on the same tree.
\* The two share no state, so running them one after the other loses nothing.
BothNext ==
    \/ Discover
    \/ RootInstall
    \/ BuildSample
    \/ PrintSummary
    \/ FinalExit
    \/ (pc = "exited" /\ WorkflowStep)

BothSpec == Init /\ [][BothNext]_vars

\* ------------------------------------------------ the find lines on their own
\* Line 11 applied to a set of files, and lines 52-53 applied to the .ts
\* files of one unit.
FindInit ==
    /\ tree = <<>>
    /\ rootDir = "present"
    /\ arithErrexit = TRUE
    /\ pc = "discover"
    /\ samples = <<>>
    /\ idx = 0
    /\ results = <<>>
    /\ total_samples = 0
    /\ successful = 0
    /\ failed = 0
    /\ invoked = <<>>
    /\ out = <<>>
    /\ status = 0
    /\ wfPhase = "idle"
    /\ wfMatrix = <<>>
    /\ wfArtifacts = <<>>
    /\ wfLog = {}
    /\ wfStatus = 0
    /\ fsFound = <<>>
    /\ ufExists = FALSE
    /\ ufArgs = {}
    /\ SamplesIdle
    /\ \/ /\ findPc = "discovery"
          /\ fsFiles \in SUBSET { FsUniverse[k] : k \in DOMAIN FsUniverse }
          /\ ufFiles = {}
       \/ /\ findPc = "lenient"
          /\ fsFiles = {}
          /\ ufFiles \in SUBSET UnitFileUniverse

\* Line 11.
RunDiscovery ==
    /\ findPc = "discovery"
    /\ fsFound' = DiscoverPaths(fsFiles)
    /\ findPc' = "discovered"
    /\ UNCHANGED <<fsFiles, ufFiles, ufExists, ufArgs>>
    /\ UNCHANGED <<scriptvars, wfvars, samplevars>>

\* Lines 52-53: the existence test and the argument list of npx tsc.
RunLenientFind ==
    /\ findPc = "lenient"
    /\ ufExists' = (LenientFiles([files |-> ufFiles]) # {})
    /\ ufArgs' = LenientFiles([files |-> ufFiles])
    /\ findPc' = "listed"
    /\ UNCHANGED <<fsFiles, fsFound, ufFiles>>
    /\ UNCHANGED <<scriptvars, wfvars, samplevars>>

FindNext == RunDiscovery \/ RunLenientFind

FindSpec == FindInit /\ [][FindNext]_vars

\* ------------------------------------------------ configure-search-rbac.sh
\* The script from line 149 on, in a run that passed the checks of lines
\* 29-147 (az installed, logged in, search service found, RBAC enabled).

\* build-samples.sh, its workflow and the find lines are not running.
BuildIdle ==
    /\ tree = <<>>
    /\ rootDir = "present"
    /\ arithErrexit = TRUE
    /\ pc = "exited"
    /\ samples = <<>>
    /\ idx = 0
    /\ results = <<>>
    /\ total_samples = 0
    /\ successful = 0
    /\ failed = 0
    /\ invoked = <<>>
    /\ out = <<>>
    /\ status = 0
    /\ wfPhase = "idle"
    /\ wfMatrix = <<>>
    /\ wfArtifacts = <<>>
    /\ wfLog = {}
    /\ wfStatus = 0
    /\ findPc = "idle"
    /\ fsFiles = {}
    /\ fsFound = <<>>
    /\ ufFiles = {}
    /\ ufExists = FALSE
    /\ ufArgs = {}

\* Lines 16-20.
RBAC_ROLES ==
    <<"Search Service Contributor", "Search Index Data Contributor",
      "Search Index Data Reader">>

\* Line 204.
MAX_RETRIES == 3

\* What `az search service show --query identity.principalId -o tsv ... ||
\* echo ""` (line 207) can leave in the variable.
PrincipalAnswers == {"", "null", "principal-1"}

\* What the query of identity.type (line 151) can leave in IDENTITY_TYPE.
IdentityTypes == {"", "null", "SystemAssigned"}

RbCall(cmd, role, ok) == [cmd |-> cmd, role |-> role, ok |-> ok]

\* Line 9, set -e: a simple command that fails outside a condition ends the
\* script, also inside a function called as a simple command (line 311).
RbErrexit(ok) == ~ok

\* Variant of RbNotReady that takes only the empty answer as not ready.
RbNotReadyEmptyOnly(ans) == ans = ""

\* Line 209: [ -z "$ID" ] || [ "$ID" = "null" ]
RbNotReady(ans) == ans = "" \/ ans = "null"

\* Line 206: the condition of the retry loop.
RbLoopCondition == rbId = "" /\ rbRetry < MAX_RETRIES

RbacInit ==
    /\ BuildIdle
    /\ CreateIdle
    /\ AgentIdle
    /\ rbPc = "check identity"
    /\ rbUser \in {"", "user-oid"}
    /\ rbId = ""
    /\ rbRetry = 0
    /\ rbAnswers = <<>>
    /\ rbRole = 0
    /\ rbCalls = <<>>
    /\ rbOut = <<>>
    /\ rbStatus = 0

\* Lines 149-198: the identity type is queried and, when none is set, the
\* managed identity is enabled, with the REST call as the alternative.
RbEnableIdentity ==
    /\ rbPc = "check identity"
    /\ \E type \in IdentityTypes, updateOk \in BOOLEAN, tokenOk \in BOOLEAN, curlOk \in BOOLEAN :
         IF ~(type = "null" \/ type = "")
         THEN /\ rbOut' = Append(rbOut, "identity already enabled")
              /\ rbPc' = "retry loop"
              /\ UNCHANGED <<rbCalls, rbStatus>>
         ELSE LET update == RbCall("az search service update --identity-type", 0, updateOk)
                  token  == RbCall("az account get-access-token", 0, tokenOk)
                  curl   == RbCall("curl -X PATCH", 0, curlOk)
              IN  IF RbErrexit(updateOk)
                  THEN /\ rbCalls' = Append(rbCalls, update)
                       /\ rbOut' = Append(rbOut, "identity not enabled")
                       /\ rbPc' = "exited"
                       /\ rbStatus' = 1
                  ELSE IF updateOk
                  THEN /\ rbCalls' = Append(rbCalls, update)
                       /\ rbOut' = rbOut \o <<"identity not enabled", "identity enabled">>
                       /\ rbPc' = "retry loop"
                       /\ rbStatus' = rbStatus
                  ELSE IF RbErrexit(tokenOk) \/ RbErrexit(curlOk)
                  THEN /\ rbCalls' = rbCalls \o (IF tokenOk THEN <<update, token, curl>>
                                                ELSE <<update, token>>)
                       /\ rbOut' = rbOut \o <<"identity not enabled", "trying REST API">>
                       /\ rbPc' = "exited"
                       /\ rbStatus' = 1
                  ELSE IF curlOk
                  THEN /\ rbCalls' = rbCalls \o <<update, token, curl>>
                       /\ rbOut' = rbOut \o <<"identity not enabled", "trying REST API",
                                              "identity enabled via REST API">>
                       /\ rbPc' = "retry loop"
                       /\ rbStatus' = rbStatus
                  ELSE /\ rbCalls' = rbCalls \o <<update, token, curl>>
                       /\ rbOut' = rbOut \o <<"identity not enabled", "trying REST API",
                                              "REST API failed">>
                       /\ rbPc' = "exited"
                       /\ rbStatus' = 1
    /\ UNCHANGED <<rbUser, rbId, rbRetry, rbAnswers, rbRole>>
    /\ UNCHANGED <<buildvars, createvars, agentvars>>

\* Lines 206-217: one iteration of the retry loop.
RbQueryPrincipal ==
    /\ rbPc = "retry loop"
    /\ RbLoopCondition
    /\ \E ans \in PrincipalAnswers :
         /\ rbAnswers' = Append(rbAnswers, ans)
         /\ IF RbNotReady(ans)
            THEN /\ rbRetry' = rbRetry + 1
                 /\ rbId' = ""
                 /\ rbOut' = IF rbRetry + 1 < MAX_RETRIES
                             THEN Append(rbOut, "not ready yet") ELSE rbOut
            ELSE /\ rbId' = ans
                 /\ UNCHANGED <<rbRetry, rbOut>>
    /\ UNCHANGED <<rbPc, rbUser, rbRole, rbCalls, rbStatus>>
    /\ UNCHANGED <<buildvars, createvars, agentvars>>

\* Lines 219-228: the loop is left; the ID or the warning is printed and the
\* role-assignment phase is announced.
RbLoopEnd ==
    /\ rbPc = "retry loop"
    /\ ~RbLoopCondition
    /\ rbOut' = rbOut \o <<(IF rbId # "" /\ rbId # "null" THEN "principal ID"
                            ELSE "could not retrieve principal ID"),
                           "Assigning RBAC roles">>
    /\ rbPc' = "check user"
    /\ UNCHANGED <<rbUser, rbId, rbRetry, rbAnswers, rbRole, rbCalls, rbStatus>>
    /\ UNCHANGED <<buildvars, createvars, agentvars>>

\* Lines 230-247: the user's object ID is required; the permission check
\* only prints.
RbCheckUser ==
    /\ rbPc = "check user"
    /\ IF rbUser = ""
       THEN /\ rbOut' = Append(rbOut, "no user object ID")
            /\ rbPc' = "exited"
            /\ rbStatus' = 1
            /\ rbRole' = rbRole
       ELSE /\ rbOut' = Append(rbOut, "Checking user permissions")
            /\ rbPc' = "roles"
            /\ rbRole' = 1
            /\ rbStatus' = rbStatus
    /\ UNCHANGED <<rbUser, rbId, rbRetry, rbAnswers, rbCalls>>
    /\ UNCHANGED <<buildvars, createvars, agentvars>>

\* Lines 303-312 with assign_role (lines 250-300): one iteration of the loop
\* over RBAC_ROLES.
RbAssignRole ==
    /\ rbPc = "roles"
    /\ rbRole <= Len(RBAC_ROLES)
    /\ \E existing \in BOOLEAN, createOk \in BOOLEAN, altOk \in BOOLEAN :
         LET create == RbCall("az role assignment create", rbRole, createOk)
             alt    == RbCall("az role assignment create --assignee-principal-type User",
                              rbRole, altOk)
             next   == IF rbRole = Len(RBAC_ROLES) THEN "verify" ELSE "roles"
         IN  IF existing
             THEN /\ rbOut' = Append(rbOut, "already assigned")
                  /\ rbPc' = next
                  /\ rbRole' = rbRole + 1
                  /\ UNCHANGED <<rbCalls, rbStatus>>
             ELSE IF RbErrexit(createOk)
             THEN /\ rbCalls' = Append(rbCalls, create)
                  /\ rbPc' = "exited"
                  /\ rbStatus' = 1
                  /\ UNCHANGED <<rbOut, rbRole>>
             ELSE IF createOk
             THEN /\ rbCalls' = Append(rbCalls, create)
                  /\ rbOut' = Append(rbOut, "assigned")
                  /\ rbPc' = next
                  /\ rbRole' = rbRole + 1
                  /\ rbStatus' = rbStatus
             ELSE IF RbErrexit(altOk)
             THEN /\ rbCalls' = rbCalls \o <<create, alt>>
                  /\ rbOut' = Append(rbOut, "trying alternative")
                  /\ rbPc' = "exited"
                  /\ rbStatus' = 1
                  /\ rbRole' = rbRole
             ELSE IF altOk
             THEN /\ rbCalls' = rbCalls \o <<create, alt>>
                  /\ rbOut' = rbOut \o <<"trying alternative", "assigned with alternative">>
                  /\ rbPc' = next
                  /\ rbRole' = rbRole + 1
                  /\ rbStatus' = rbStatus
             ELSE /\ rbCalls' = rbCalls \o <<create, alt>>
                  /\ rbOut' = rbOut \o <<"trying alternative", "failed with both methods">>
                  /\ rbPc' = "exited"
                  /\ rbStatus' = 1
                  /\ rbRole' = rbRole
    /\ UNCHANGED <<rbUser, rbId, rbRetry, rbAnswers>>
    /\ UNCHANGED <<buildvars, createvars, agentvars>>

\* Lines 314-391: the assignments are listed, the summary is printed and the
\* user may have API-key authentication disabled.
RbVerifyAndFinish ==
    /\ rbPc = "verify"
    /\ \E listOk \in BOOLEAN, reply \in {"y", "n"}, disableOk \in BOOLEAN :
         IF RbErrexit(listOk)
         THEN /\ rbOut' = Append(rbOut, "Verifying role assignments")
              /\ rbStatus' = 1
              /\ UNCHANGED rbCalls
         ELSE IF reply = "y"
         THEN /\ rbCalls' = Append(rbCalls,
                      RbCall("az search service update --disable-local-auth", 0, disableOk))
              /\ IF RbErrexit(disableOk)
                 THEN /\ rbOut' = rbOut \o <<"Verifying role assignments",
                                            "Configuration Summary">>
                      /\ rbStatus' = 1
                 ELSE /\ rbOut' = rbOut \o <<"Verifying role assignments",
                                            "Configuration Summary",
                                            (IF disableOk THEN "API keys disabled"
                                             ELSE "failed to disable API keys"),
                                            "Troubleshooting Tips">>
                      /\ rbStatus' = 0
         ELSE /\ rbOut' = rbOut \o <<"Verifying role assignments", "Configuration Summary",
                                     "API keys remain enabled", "Troubleshooting Tips">>
              /\ rbStatus' = 0
              /\ UNCHANGED rbCalls
    /\ rbPc' = "exited"
    /\ UNCHANGED <<rbUser, rbId, rbRetry, rbAnswers, rbRole>>
    /\ UNCHANGED <<buildvars, createvars, agentvars>>

RbacNext ==
    \/ RbEnableIdentity
    \/ RbQueryPrincipal
    \/ RbLoopEnd
    \/ RbCheckUser
    \/ RbAssignRole
    \/ RbVerifyAndFinish

RbacSpec == RbacInit /\ [][RbacNext]_vars

\* ------------------------------------ the search-resource creation script
\* src/unnamed/part_000, from the first check (line 29) to its end.

\* Texts the --validate-only call may print (stdout and stderr, line 76).
TextOk         == <<"{", "}">>
TextError      == <<"e", "r", "r", "o", "r", ":", " ", "q", "u", "o", "t", "a">>
TextUpperError == <<"E", "R", "R", "O", "R", ":", " ", "n", "a", "m", "e">>
TextNoErrors   == <<"0", " ", "e", "r", "r", "o", "r", "s">>
ValidationTexts == {TextOk, TextError, TextUpperError, TextNoErrors}

\* What `read -n 1 -r` puts in REPLY: one keystroke, nothing for Enter; "EOF"
\* stands for a closed standard input, where read fails.
Keystrokes == {"y", "Y", "n", "", "EOF"}

CsCall(cmd, ok) == [cmd |-> cmd, ok |-> ok]

\* Line 8, set -e.
CsErrexit(ok) == ~ok

\* Line 78: [[ $VALIDATION_RESULT == *"error"* ]]
CsValidationFailed(text) == GrepQ(text, <<"e", "r", "r", "o", "r">>)

\* Variant of CsAccepts that takes every keystroke but n as consent.
CsAcceptsUnlessN(reply) == reply # "n"

\* Lines 51, 99: [[ $REPLY =~ ^[Yy]$ ]]
CsAccepts(reply) == reply \in {"y", "Y"}

CreateInit ==
    /\ BuildIdle
    /\ RbacIdle
    /\ AgentIdle
    /\ csPc = "preflight"
    /\ csValidation \in ValidationTexts
    /\ csReply \in Keystrokes
    /\ csCalls = <<>>
    /\ csOut = <<>>
    /\ csService = FALSE
    /\ csEnvFile = FALSE
    /\ csStatus = 0

\* Lines 29-61: az is installed, the user is logged in, the subscription is
\* shown and the resource group exists or is created.
CsPreflight ==
    /\ csPc = "preflight"
    /\ \E azInstalled \in BOOLEAN, loggedIn \in BOOLEAN, showOk \in BOOLEAN,
          groupExists \in BOOLEAN, groupReply \in Keystrokes, groupOk \in BOOLEAN :
         LET group == CsCall("az group create", groupOk)
         IN  IF ~azInstalled
             THEN /\ csOut' = Append(csOut, "Azure CLI is not installed")
                  /\ csPc' = "exited" /\ csStatus' = 1
                  /\ UNCHANGED csCalls
             ELSE IF ~loggedIn
             THEN /\ csOut' = Append(csOut, "Not logged in")
                  /\ csPc' = "exited" /\ csStatus' = 1
                  /\ UNCHANGED csCalls
             ELSE IF CsErrexit(showOk)
             THEN /\ csPc' = "exited" /\ csStatus' = 1
                  /\ UNCHANGED <<csOut, csCalls>>
             ELSE IF groupExists
             THEN /\ csOut' = csOut \o <<"Current Subscription", "Resource group exists">>
                  /\ csPc' = "validate" /\ csStatus' = csStatus
                  /\ UNCHANGED csCalls
             ELSE IF groupReply = "EOF"
             THEN /\ csOut' = csOut \o <<"Current Subscription", "Resource group does not exist">>
                  /\ csPc' = "exited" /\ csStatus' = 1
                  /\ UNCHANGED csCalls
             ELSE IF ~CsAccepts(groupReply)
             THEN /\ csOut' = csOut \o <<"Current Subscription", "Resource group does not exist",
                                         "Cannot proceed without resource group">>
                  /\ csPc' = "exited" /\ csStatus' = 1
                  /\ UNCHANGED csCalls
             ELSE IF CsErrexit(groupOk)
             THEN /\ csOut' = csOut \o <<"Current Subscription", "Resource group does not exist",
                                         "Creating resource group">>
                  /\ csCalls' = Append(csCalls, group)
                  /\ csPc' = "exited" /\ csStatus' = 1
             ELSE /\ csOut' = csOut \o <<"Current Subscription", "Resource group does not exist",
                                         "Creating resource group", "Resource group created">>
                  /\ csCalls' = Append(csCalls, group)
                  /\ csPc' = "validate" /\ csStatus' = csStatus
    /\ UNCHANGED <<csValidation, csReply, csService, csEnvFile>>
    /\ UNCHANGED <<buildvars, rbacvars, agentvars>>

\* Lines 63-84: the dry run; its exit status is discarded by `|| true` and
\* its output decides.
CsValidate ==
    /\ csPc = "validate"
    /\ \E ok \in BOOLEAN :
         csCalls' = Append(csCalls, CsCall("az search service create --validate-only", ok))
    /\ IF CsValidationFailed(csValidation)
       THEN /\ csOut' = Append(csOut, "Validation failed")
            /\ csPc' = "exited" /\ csStatus' = 1
       ELSE /\ csOut' = Append(csOut, "Configuration validation passed")
            /\ csPc' = "confirm" /\ csStatus' = csStatus
    /\ UNCHANGED <<csValidation, csReply, csService, csEnvFile>>
    /\ UNCHANGED <<buildvars, rbacvars, agentvars>>

\* Lines 86-102: the summary and the confirmation prompt.
CsConfirm ==
    /\ csPc = "confirm"
    /\ IF csReply = "EOF"
       THEN /\ csOut' = Append(csOut, "Configuration Summary")
            /\ csPc' = "exited" /\ csStatus' = 1
       ELSE IF ~CsAccepts(csReply)
       THEN /\ csOut' = csOut \o <<"Configuration Summary", "Operation cancelled by user">>
            /\ csPc' = "exited" /\ csStatus' = 0
       ELSE /\ csOut' = Append(csOut, "Configuration Summary")
            /\ csPc' = "create" /\ csStatus' = csStatus
    /\ UNCHANGED <<csValidation, csReply, csCalls, csService, csEnvFile>>
    /\ UNCHANGED <<buildvars, rbacvars, agentvars>>

\* Lines 104-171: the service is created, its endpoint and admin key are
\* read and the env file is written.
CsCreate ==
    /\ csPc = "create"
    /\ \E createOk \in BOOLEAN, showOk \in BOOLEAN, keyOk \in BOOLEAN :
         LET create == CsCall("az search service create", createOk)
             show   == CsCall("az search service show", showOk)
             key    == CsCall("az search admin-key show", keyOk)
         IN  IF CsErrexit(createOk)
             THEN /\ csCalls' = Append(csCalls, create)
                  /\ csOut' = Append(csOut, "Creating Azure AI Search service")
                  /\ csStatus' = 1
                  /\ UNCHANGED <<csService, csEnvFile>>
             ELSE IF ~createOk
             THEN /\ csCalls' = Append(csCalls, create)
                  /\ csOut' = csOut \o <<"Creating Azure AI Search service",
                                         "Failed to create Azure AI Search service">>
                  /\ csStatus' = 1
                  /\ UNCHANGED <<csService, csEnvFile>>
             ELSE IF CsErrexit(showOk)
             THEN /\ csCalls' = csCalls \o <<create, show>>
                  /\ csOut' = csOut \o <<"Creating Azure AI Search service", "created successfully">>
                  /\ csService' = TRUE
                  /\ csStatus' = 1
                  /\ UNCHANGED csEnvFile
             ELSE IF CsErrexit(keyOk)
             THEN /\ csCalls' = csCalls \o <<create, show, key>>
                  /\ csOut' = csOut \o <<"Creating Azure AI Search service", "created successfully",
                                         "Service Details">>
                  /\ csService' = TRUE
                  /\ csStatus' = 1
                  /\ UNCHANGED csEnvFile
             ELSE /\ csCalls' = csCalls \o <<create, show, key>>
                  /\ csOut' = csOut \o <<"Creating Azure AI Search service", "created successfully",
                                         "Service Details", "Environment file created",
                                         "Script completed successfully">>
                  /\ csService' = TRUE
                  /\ csEnvFile' = TRUE
                  /\ csStatus' = 0
    /\ csPc' = "exited"
    /\ UNCHANGED <<csValidation, csReply>>
    /\ UNCHANGED <<buildvars, rbacvars, agentvars>>

CreateNext == CsPreflight \/ CsValidate \/ CsConfirm \/ CsCreate

CreateSpec == CreateInit /\ [][CreateNext]_vars

\* ------------------------------------------- the agentic-retrieval sample
\* src/unnamed/part_001.  JSON values are tagged: <<"absent">> for a missing
\* property, <<"str", s>>, <<"num", digits>>.

\* The most documents a fetched array holds.
MaxDocs == 2

Absent == <<"absent">>
JStr(t) == <<"str", t>>
JNum(digits) == <<"num", digits>>

\* JavaScript truthiness, as `||` tests it (lines 270-273).
Truthy(v) == \/ v[1] = "str" /\ v[2] # ""
             \/ v[1] = "num" /\ v[2] # "0"

\* a || b
OrElse(a, b) == IF Truthy(a) THEN a ELSE b

\* String(n) and the number n as a JSON value, for the positions that occur.
IndexString(n) == CASE n = 1 -> "1" [] n = 2 -> "2" [] n = 3 -> "3" [] OTHER -> "4"

\* Elements a fetched array may hold; isNull marks the JSON value null.
FetchedDoc(id, chunk, content, number) ==
    [isNull |-> FALSE, id |-> id, page_chunk |-> chunk, content |-> content,
     page_number |-> number]

FetchedElements ==
    { FetchedDoc(JStr("doc-7"), JStr("chunk"), Absent, JNum("5")),
      FetchedDoc(Absent, Absent, JStr("content"), Absent),
      FetchedDoc(JStr(""), Absent, Absent, JNum("0")),
      FetchedDoc(JNum("0"), JStr("chunk"), Absent, Absent),
      FetchedDoc(JNum("7"), JStr(""), JStr("content"), JNum("9")),
      [isNull |-> TRUE, id |-> Absent, page_chunk |-> Absent, content |-> Absent,
       page_number |-> Absent] }

\* What `fetch` and `response.json()` (lines 258-264) can give: a network
\* error, a non-OK status, a body that is no JSON, the JSON values null, {}
\* and "text", or an array.
FetchOutcome(kind, docs) == [kind |-> kind, docs |-> docs]

FetchOutcomes ==
    { FetchOutcome(k, <<>>) : k \in {"network error", "status 404", "unparsable",
                                     "null", "object", "string"} }
    \cup { FetchOutcome("array", d) : d \in SeqsUpTo(FetchedElements, MaxDocs) }

\* Variant of TransformedId that passes doc.id through.
TransformedIdRaw(doc, index) == doc.id

\* Line 270: id: doc.id || String(index + 1), index counting from 0.
TransformedId(doc, index) == OrElse(doc.id, JStr(IndexString(index + 1)))

\* Lines 269-274 (the embedding, a constant array when absent, is left out).
Transformed(doc, index) ==
    [id |-> TransformedId(doc, index),
     page_chunk |-> OrElse(doc.page_chunk, OrElse(doc.content, JStr(""))),
     page_number |-> OrElse(doc.page_number, JNum(IndexString(index + 1)))]

\* Lines 284-298.
FallbackDocuments ==
    << [id |-> JStr("1"), page_chunk |-> JStr("The Earth at night"), page_number |-> JNum("1")],
       [id |-> JStr("2"), page_chunk |-> JStr("From space"), page_number |-> JNum("2")] >>

\* Lines 258-275: the try block throws on a failed fetch, a non-OK status
\* (line 261), a body response.json() rejects, a value without length or map
\* (null, {}, "text") and an element whose property read throws (null).
FetchTryThrows(o) ==
    \/ o.kind # "array"
    \/ \E k \in DOMAIN o.docs : o.docs[k].isNull

\* Lines 252-300: the value the returned promise settles with.
FetchEarthAtNightDocuments(o) ==
    IF FetchTryThrows(o)
    THEN [rejected |-> FALSE, docs |-> FallbackDocuments]
    ELSE [rejected |-> FALSE,
          docs |-> [k \in DOMAIN o.docs |-> Transformed(o.docs[k], k - 1)]]

\* Messages of the conversation.
Message(role, content) == [role |-> role, content |-> content]

\* Lines 397-408.
InitialMessages == << Message("system", "A Q&A agent"), Message("user", "first question") >>

\* Line 592.
FollowUpQuestion == "How do I find lava at night?"

\* Variant of WithoutSystem that passes the history on unfiltered.
Unfiltered(messages) == messages

\* Lines 412, 602: messages.filter(m => m.role !== "system")
WithoutSystem(messages) == SelectSeq(messages, LAMBDA m : m.role # "system")

\* Bodies the retrieval endpoint may answer with (lines 416-427 read the
\* properties messages and response).
RetrievalResponse(messages, response) == [messages |-> messages, response |-> response]

RetrievalResponses ==
    { RetrievalResponse(<<Message("assistant", "synthesized answer")>>, Absent),
      RetrievalResponse(<<Message("user", "echo")>>, JStr("ignored")),
      RetrievalResponse(<<>>, JStr("plain answer")),
      RetrievalResponse(<<>>, <<"array", "[1]">>),
      RetrievalResponse(<<>>, Absent) }

\* Lines 416-427 and 606-617.
AssistantContent(r) ==
    IF Len(r.messages) > 0
    THEN (IF r.messages[Len(r.messages)].role = "assistant"
          THEN r.messages[Len(r.messages)].content ELSE "")
    ELSE IF r.response[1] = "str" THEN r.response[2]
    ELSE IF r.response[1] = "array" THEN r.response[2]
    ELSE ""

\* A request to a service: [op, status].
Request(op, answer) == [op |-> op, status |-> answer]

\* How the DELETE of the agent can end: no token (line 559), no connection,
\* an error status, 404 (never created, or removed by someone else in the
\* meantime) or, for an agent that exists, success.
DeleteAgentOutcomes(exists) ==
    {"no token", "network error", "500", "404"} \cup (IF exists THEN {"ok"} ELSE {})

\* Variant of DeleteAgentThrows in which 404 is an error like any other.
DeleteAgentThrowsOn404(outcome) == outcome # "ok"

\* Lines 567-581: deleteKnowledgeAgent throws unless the response was OK or
\* 404.
DeleteAgentThrows(outcome) == outcome \notin {"ok", "404"}

\* The requests deleteKnowledgeAgent makes: none when no token was obtained.
DeleteAgentRequests(outcome) ==
    IF outcome = "no token" THEN <<Request("getToken", "error")>>
    ELSE <<Request("DELETE agent", outcome)>>

\* How indexClient.deleteIndex can end.
DeleteIndexOutcomes(exists) ==
    {"network error", "500", "404", "IndexNotFound"} \cup (IF exists THEN {"ok"} ELSE {})

\* Lines 241-248: deleteSearchIndex throws unless the error is a 404 or has
\* the code IndexNotFound.
DeleteIndexThrows(outcome) == outcome \notin {"ok", "404", "IndexNotFound"}

\* The steps of main, lines 123-136.
MainSteps ==
    <<"create index", "upload documents", "create agent", "run retrieval",
      "delete agent", "delete index">>

\* Variant of AfterThrow in which a failed retrieval still cleans up.
AfterThrowCleanup(step) == IF step = "run retrieval" THEN "delete agent" ELSE "exited"

\* Lines 140-143 and 677-680: main's catch rethrows and runWithErrorHandling
\* ends the process, whatever step threw.
AfterThrow(step) == "exited"

\* Line 679: process.exit(1)
FailureExitCode == 1

AgentInit ==
    /\ BuildIdle
    /\ RbacIdle
    /\ CreateIdle
    /\ agPc = "create index"
    /\ agPreexisting \in BOOLEAN
    /\ agAgent = agPreexisting
    /\ agIndex = FALSE
    /\ agFetched = <<>>
    /\ agDocs = <<>>
    /\ agHistory = <<>>
    /\ agCalls = <<>>
    /\ agLog = <<>>
    /\ agSteps = <<>>
    /\ agThrew = ""
    /\ agOut = <<>>
    /\ agExit = -1

\* A step of main threw: its own catch logs and rethrows, then main's catch
\* (lines 140-143) and runWithErrorHandling (lines 677-680).
AgThrow(step, lines) ==
    /\ agThrew' = step
    /\ agPc' = AfterThrow(step)
    /\ agExit' = IF AfterThrow(step) = "exited" THEN FailureExitCode ELSE agExit
    /\ agOut' = agOut \o lines \o <<"Error in main execution", "Application failed">>

\* A step, or a part of one, ended normally.
AgContinue(next, lines) ==
    /\ agPc' = next
    /\ agOut' = agOut \o lines
    /\ UNCHANGED <<agThrew, agExit>>

\* Lines 103-123 and createSearchIndex (lines 144-232).
AgCreateIndex ==
    /\ agPc = "create index"
    /\ agSteps' = Append(agSteps, "create index")
    /\ \E ok \in BOOLEAN :
         /\ agLog' = Append(agLog, Request("createOrUpdateIndex", IF ok THEN "ok" ELSE "500"))
         /\ IF ok
            THEN /\ agIndex' = TRUE
                 /\ AgContinue("fetch documents", <<"Starting", "Creating search index",
                                                    "Index created">>)
            ELSE /\ agIndex' = agIndex
                 /\ AgThrow("create index", <<"Starting", "Creating search index",
                                              "Error creating index">>)
    /\ UNCHANGED <<agPreexisting, agAgent, agFetched, agDocs, agHistory, agCalls>>
    /\ UNCHANGED <<buildvars, rbacvars, createvars>>

\* uploadDocuments up to line 307: fetchEarthAtNightDocuments (lines 252-300).
AgFetchDocuments ==
    /\ agPc = "fetch documents"
    /\ agSteps' = Append(agSteps, "upload documents")
    /\ \E o \in FetchOutcomes :
         LET r == FetchEarthAtNightDocuments(o)
         IN  /\ agFetched' = <<o>>
             /\ agLog' = Append(agLog, Request("GET documents.json", o.kind))
             /\ IF r.rejected
                THEN /\ agDocs' = agDocs
                     /\ AgThrow("upload documents", <<"Uploading documents",
                                                      "Error uploading documents">>)
                ELSE /\ agDocs' = r.docs
                     /\ AgContinue("upload", <<"Uploading documents", "Fetching documents">>
                                     \o (IF FetchTryThrows(o)
                                         THEN <<"Falling back to sample documents">>
                                         ELSE <<"Fetched documents">>))
    /\ UNCHANGED <<agPreexisting, agAgent, agIndex, agHistory, agCalls>>
    /\ UNCHANGED <<buildvars, rbacvars, createvars>>

\* uploadDocuments, lines 309-320.
AgUpload ==
    /\ agPc = "upload"
    /\ agFetched' = <<>>
    /\ agDocs' = <<>>
    /\ \E ok \in BOOLEAN :
         /\ agLog' = Append(agLog, Request("uploadDocuments", IF ok THEN "ok" ELSE "500"))
         /\ IF ok
            THEN AgContinue("create agent", <<"Uploaded documents", "Document indexing completed">>)
            ELSE AgThrow("upload documents", <<"Error uploading documents">>)
    /\ UNCHANGED <<agPreexisting, agAgent, agIndex, agHistory, agCalls, agSteps>>
    /\ UNCHANGED <<buildvars, rbacvars, createvars>>

\* How the PUT of the agent can end.
PutAgentOutcomes == {"ok", "no token", "network error", "400"}

\* createKnowledgeAgent, lines 323-392: deleteKnowledgeAgent (lines 555-582),
\* then the PUT.
AgCreateAgent ==
    /\ agPc = "create agent"
    /\ agSteps' = Append(agSteps, "create agent")
    /\ \E d \in DeleteAgentOutcomes(agAgent), put \in PutAgentOutcomes :
         IF DeleteAgentThrows(d)
         THEN /\ agLog' = agLog \o DeleteAgentRequests(d)
              /\ agAgent' = agAgent
              /\ AgThrow("create agent", <<"Deleting knowledge agent",
                                           "Error deleting knowledge agent">>)
         ELSE /\ agLog' = agLog \o DeleteAgentRequests(d)
                          \o (IF put = "no token" THEN <<Request("getToken", "error")>>
                              ELSE <<Request("PUT agent", put)>>)
              /\ agAgent' = (put = "ok")
              /\ IF put = "ok"
                 THEN AgContinue("first retrieval",
                                 <<"Deleting knowledge agent",
                                   (IF d = "404" THEN "agent does not exist" ELSE "agent deleted"),
                                   "Creating knowledge agent", "Knowledge agent created">>)
                 ELSE AgThrow("create agent",
                              <<"Deleting knowledge agent",
                                (IF d = "404" THEN "agent does not exist" ELSE "agent deleted"),
                                "Creating knowledge agent", "Error creating knowledge agent">>)
    /\ UNCHANGED <<agPreexisting, agIndex, agFetched, agDocs, agHistory, agCalls>>
    /\ UNCHANGED <<buildvars, rbacvars, createvars>>

\* How a call of the retrieval endpoint or of the completion can end, other
\* than with a body.
CallFailures == {"no token", "network error", "500"}

\* The requests callAgenticRetrieval (lines 512-555) makes.
RetrievalRequests(answer) ==
    IF answer = "no token" THEN <<Request("getToken", "error")>>
    ELSE <<Request("POST chat", answer)>>

\* runAgenticRetrieval, lines 394-466: the first question.
AgFirstRetrieval ==
    /\ agPc = "first retrieval"
    /\ agSteps' = Append(agSteps, "run retrieval")
    /\ agCalls' = Append(agCalls, WithoutSystem(InitialMessages))
    /\ \E answer \in CallFailures \cup {"ok"}, r \in RetrievalResponses :
         /\ agLog' = agLog \o RetrievalRequests(answer)
         /\ IF answer = "ok"
            THEN /\ agHistory' = Append(InitialMessages,
                                        Message("assistant", AssistantContent(r)))
                 /\ AgContinue("first answer", <<"Running agentic retrieval",
                                                 "SYNTHESIZED ANSWER">>)
            ELSE /\ agHistory' = InitialMessages
                 /\ AgThrow("run retrieval", <<"Running agentic retrieval",
                                               "Error in agentic retrieval">>)
    /\ UNCHANGED <<agPreexisting, agAgent, agIndex, agFetched, agDocs>>
    /\ UNCHANGED <<buildvars, rbacvars, createvars>>

\* How openAIClient.chat.completions.create and the read of its first choice
\* can end (lines 488-504).
CompletionOutcomes == {"throws", "no content", "answer"}

\* generateFinalAnswer, lines 480-510; catchLine is what the caller's catch
\* prints when it throws.
AgGenerateFinalAnswer(step, next, catchLine, doneLines) ==
    \E c \in CompletionOutcomes :
        /\ agLog' = Append(agLog, Request("chat.completions", c))
        /\ IF c = "throws"
           THEN /\ agHistory' = agHistory
                /\ AgThrow(step, <<"COMPARISON", "Error generating final answer", catchLine>>)
           ELSE /\ agHistory' = IF c = "answer"
                                THEN Append(agHistory, Message("assistant", "final answer"))
                                ELSE agHistory
                /\ AgContinue(next, <<"COMPARISON", "ASSISTANT">> \o doneLines)

\* runAgenticRetrieval, lines 468-471.
AgFirstAnswer ==
    /\ agPc = "first answer"
    /\ AgGenerateFinalAnswer("run retrieval", "follow-up retrieval",
                             "Error in agentic retrieval", <<>>)
    /\ UNCHANGED <<agPreexisting, agAgent, agIndex, agFetched, agDocs, agCalls, agSteps>>
    /\ UNCHANGED <<buildvars, rbacvars, createvars>>

\* continueConversation, lines 584-656, called at line 474.
AgFollowUpRetrieval ==
    /\ agPc = "follow-up retrieval"
    /\ LET asked == Append(agHistory, Message("user", FollowUpQuestion))
       IN  /\ agCalls' = Append(agCalls, WithoutSystem(asked))
           /\ \E answer \in CallFailures \cup {"ok"}, r \in RetrievalResponses :
                /\ agLog' = agLog \o RetrievalRequests(answer)
                /\ IF answer = "ok"
                   THEN /\ agHistory' = Append(asked, Message("assistant", AssistantContent(r)))
                        /\ AgContinue("follow-up answer", <<"Continuing Conversation",
                                                            "SYNTHESIZED ANSWER">>)
                   ELSE /\ agHistory' = asked
                        /\ AgThrow("run retrieval", <<"Continuing Conversation",
                                                      "Error in conversation continuation",
                                                      "Error in agentic retrieval">>)
    /\ UNCHANGED <<agPreexisting, agAgent, agIndex, agFetched, agDocs, agSteps>>
    /\ UNCHANGED <<buildvars, rbacvars, createvars>>

\* continueConversation, lines 658-667.
AgFollowUpAnswer ==
    /\ agPc = "follow-up answer"
    /\ AgGenerateFinalAnswer("run retrieval", "delete agent",
                             "Error in conversation continuation", <<"Conversation Complete">>)
    /\ UNCHANGED <<agPreexisting, agAgent, agIndex, agFetched, agDocs, agCalls, agSteps>>
    /\ UNCHANGED <<buildvars, rbacvars, createvars>>

\* Line 135: deleteKnowledgeAgent (lines 555-582).
AgDeleteAgent ==
    /\ agPc = "delete agent"
    /\ agSteps' = Append(agSteps, "delete agent")
    /\ \E d \in DeleteAgentOutcomes(agAgent) :
         /\ agLog' = agLog \o DeleteAgentRequests(d)
         /\ IF DeleteAgentThrows(d)
            THEN /\ agAgent' = agAgent
                 /\ AgThrow("delete agent", <<"Deleting knowledge agent",
                                              "Error deleting knowledge agent">>)
            ELSE /\ agAgent' = FALSE
                 /\ AgContinue("delete index",
                               <<"Deleting knowledge agent",
                                 (IF d = "404" THEN "agent does not exist" ELSE "agent deleted")>>)
    /\ UNCHANGED <<agPreexisting, agIndex, agFetched, agDocs, agHistory, agCalls>>
    /\ UNCHANGED <<buildvars, rbacvars, createvars>>

\* Lines 136-138: deleteSearchIndex (lines 234-249), then the closing line;
\* the process ends with code 0 when main has returned.
AgDeleteIndex ==
    /\ agPc = "delete index"
    /\ agSteps' = Append(agSteps, "delete index")
    /\ \E d \in DeleteIndexOutcomes(agIndex) :
         /\ agLog' = Append(agLog, Request("deleteIndex", d))
         /\ IF DeleteIndexThrows(d)
            THEN /\ agIndex' = agIndex
                 /\ AgThrow("delete index", <<"Deleting search index",
                                              "Error deleting search index">>)
            ELSE /\ agIndex' = FALSE
                 /\ agPc' = "exited"
                 /\ agExit' = 0
                 /\ agThrew' = agThrew
                 /\ agOut' = agOut \o <<"Deleting search index",
                                        (IF d = "ok" THEN "index deleted"
                                         ELSE "index does not exist"),
                                        "Quickstart completed successfully">>
    /\ UNCHANGED <<agPreexisting, agAgent, agFetched, agDocs, agHistory, agCalls>>
    /\ UNCHANGED <<buildvars, rbacvars, createvars>>

AgentNext ==
    \/ AgCreateIndex
    \/ AgFetchDocuments
    \/ AgUpload
    \/ AgCreateAgent
    \/ AgFirstRetrieval
    \/ AgFirstAnswer
    \/ AgFollowUpRetrieval
    \/ AgFollowUpAnswer
    \/ AgDeleteAgent
    \/ AgDeleteIndex

AgentSpec == AgentInit /\ [][AgentNext]_vars

TypeOK ==
    /\ pc \in {"discover", "root install", "loop", "summary", "final", "exited"}
    /\ status \in {0, 1}
    /\ successful \in 0..Len(tree)
    /\ failed \in 0..Len(tree)

\* ------------------------------------------------------- reading the state
Exited == pc = "exited"

Printed(tag) == \E k \in DOMAIN out : out[k].tag = tag

PrintedFor(tag, s) == \E k \in DOMAIN out : out[k].tag = tag /\ out[k].unit = s

\* The numbers printed on the lines with the given tag.
PrintedNumbers(tag) == { out[k].n : k \in { j \in DOMAIN out : out[j].tag = tag } }

\* Line 32 is reached: the root install succeeded and the loop is entered.
OrchestrationStarted == Printed("Building samples")

SummaryPrinted == Printed("BUILD SUMMARY")

Units == 1..Len(samples)

\* Positions in `invoked` of the runs of cmd for unit s.
Runs(s, cmd) == { k \in DOMAIN invoked : invoked[k].unit = s /\ invoked[k].cmd = cmd }

InstallFailed(s) == \E k \in Runs(s, "npm ci") : ~invoked[k].ok
InstallSucceeded(s) == \E k \in Runs(s, "npm ci") : invoked[k].ok

StrategyCommands == {"npm run build", "npx tsc --noEmit", "npx tsc --noEmit --skipLibCheck"}

\* Positions in `invoked` of the strategy commands run for unit s.
StrategyRuns(s) ==
    { k \in DOMAIN invoked : invoked[k].unit = s /\ invoked[k].cmd \in StrategyCommands }

\* Positions in `out` of the SUCCESS / FAILED markers of unit s.
OutcomeMarks(s) ==
    { k \in DOMAIN out : out[k].unit = s /\ out[k].tag \in {"SUCCESS", "FAILED"} }

\* ------------------------------------------------------------------ claims

\* C1 (as claimed): a run that discovered N >= 1 units and whose root install
\* succeeded has, when it ends, reached the Building banner of every
\* discovered unit and recorded an outcome for it, whatever the outcomes of
\* the units before it.
C1_EveryUnitAttempted ==
    (Exited /\ OrchestrationStarted) =>
        \A s \in Units : PrintedFor("Building", s) /\ s \in DOMAIN results

\* C2 (as claimed): when the root install succeeded and every discovered unit
\* succeeded, the run ends having printed the summary with Total = N,
\* Successful = N, Failed = 0 and with exit status 0; and a run with no
\* recorded failure never ends non-zero once orchestration has started.
C2_AllSuccessExitsZero ==
    /\ (Exited /\ OrchestrationStarted
          /\ \A s \in Units : GetResult(results, s) = "success") =>
            /\ status = 0
            /\ PrintedNumbers("Total samples") = {Len(samples)}
            /\ PrintedNumbers("Successful") = {Len(samples)}
            /\ PrintedNumbers("Failed") = {0}
    /\ (Exited /\ OrchestrationStarted /\ failed = 0) => status = 0

\* C3: a run never ends with exit status 0 when some unit's recorded outcome
\* is Failure, nor when the failure counter is positive.
C3_NoZeroExitWithFailure ==
    (Exited /\ (failed > 0 \/ \E s \in DOMAIN results : results[s] = "failed"))
        => status # 0

\* C3 witness: a run with a recorded failure went through the final exit and
\* ended non-zero.
C3_Witness ==
    /\ Exited
    /\ Printed("Some builds failed")
    /\ \E s \in DOMAIN results : results[s] = "failed"
    /\ status # 0

\* C4 (as claimed): a run that ends non-zero after some unit failed has
\* printed the summary block, every unit has an outcome, and every failed unit
\* is listed with the failed marker.
C4_SummaryBeforeFailureExit ==
    (Exited /\ status # 0 /\ \E s \in DOMAIN results : results[s] = "failed") =>
        /\ SummaryPrinted
        /\ \A s \in Units : s \in DOMAIN results
        /\ \A s \in DOMAIN results :
              results[s] = "failed" => PrintedFor("detail failed", s)

\* C5: whenever the summary block is printed, the printed total is the sum of
\* the printed success count and the printed failure count.
C5_TotalIsSum ==
    SummaryPrinted =>
        \A t \in PrintedNumbers("Total samples"), a \in PrintedNumbers("Successful"),
           b \in PrintedNumbers("Failed") : t = a + b

\* C5 witness: a summary was printed for a run with a success and a failure.
C5_Witness ==
    /\ SummaryPrinted
    /\ PrintedNumbers("Total samples") = {2}
    /\ PrintedNumbers("Successful") = {1}
    /\ PrintedNumbers("Failed") = {1}

C7_InstallFailureIsFailure ==
    \A s \in Units :
        InstallFailed(s) => /\ GetResult(results, s) = "failed"
                            /\ StrategyRuns(s) = {}
                            /\ Runs(s, "npm run") = {}

\* C7 witness: the install of a unit that declares a build script failed and
\* the unit has its outcome.
C7_Witness ==
    \E s \in Units :
        /\ InstallFailed(s)
        /\ DeclaresBuild(tree[s].manifest)
        /\ s \in DOMAIN results

\* C8: for a unit whose install succeeded and that has both a build script and
\* a tsconfig.json, the only strategy command run is one `npm run build`, and
\* the outcome is Success exactly when it exited zero.
C8_BuildScriptFirst ==
    \A s \in Units :
        (InstallSucceeded(s) /\ DeclaresBuild(tree[s].manifest) /\ tree[s].tsconfig) =>
            /\ Cardinality(Runs(s, "npm run build")) = 1
            /\ StrategyRuns(s) = Runs(s, "npm run build")
            /\ \A k \in Runs(s, "npm run build") :
                  (GetResult(results, s) = "success") <=> invoked[k].ok

\* C8 witness: such a unit's build command failed and the unit is recorded.
C8_Witness ==
    \E s \in Units :
        /\ InstallSucceeded(s)
        /\ DeclaresBuild(tree[s].manifest)
        /\ tree[s].tsconfig
        /\ \E k \in Runs(s, "npm run build") : ~invoked[k].ok
        /\ GetResult(results, s) = "failed"

\* C9 (as claimed): for a unit whose install succeeded, that declares no build
\* script and has a tsconfig.json, `npx tsc --noEmit` is the strategy command
\* run, the outcome is Success exactly when it exited zero, and the lenient
\* check is not run.
C9_TsconfigStrategy ==
    \A s \in Units :
        (InstallSucceeded(s) /\ ~DeclaresBuild(tree[s].manifest) /\ tree[s].tsconfig) =>
            /\ Cardinality(Runs(s, "npx tsc --noEmit")) = 1
            /\ \A k \in Runs(s, "npx tsc --noEmit") :
                  (GetResult(results, s) = "success") <=> invoked[k].ok
            /\ Runs(s, "npx tsc --noEmit --skipLibCheck") = {}

\* C10 (as claimed): a unit whose install succeeded and that has no build
\* script, no tsconfig.json and no .ts files is recorded as Success and no
\* type-check tool is invoked for it.
C10_NothingToCheckIsSuccess ==
    \A s \in Units :
        (InstallSucceeded(s) /\ ~DeclaresBuild(tree[s].manifest)
           /\ ~tree[s].tsconfig /\ tree[s].files = {}) =>
            /\ GetResult(results, s) = "success"
            /\ Runs(s, "npx tsc --noEmit") = {}
            /\ Runs(s, "npx tsc --noEmit --skipLibCheck") = {}

\* C11: when discovery yields no unit, or the directory samples is missing or
\* unreadable, the script ends with exit status 1 straight after discovery:
\* no npm ci (root or unit), no unit banner, no outcome, no summary block.
C11_FatalShortCircuit ==
    (pc # "discover" /\ (tree = <<>> \/ rootDir # "present")) =>
        /\ Exited
        /\ status = 1
        /\ invoked = <<>>
        /\ results = <<>>
        /\ ~Printed("Building")
        /\ ~SummaryPrinted

\* C11 witness: discovery ran on an unreadable samples directory that holds
\* units, and the script has ended with the no-samples message.
C11_Witness ==
    /\ Exited
    /\ rootDir = "unreadable"
    /\ tree # <<>>
    /\ Printed("no samples")

\* The detailed-results lines printed so far, in print order.
DetailLines == SelectSeq(out, LAMBDA l : l.tag \in {"detail success", "detail failed"})

\* C12: the per-unit status lines of the summary are in discovery order, one
\* per discovered unit, and each shows the outcome recorded under that unit's
\* own identifier.
C12_DetailInDiscoveryOrder ==
    SummaryPrinted =>
        /\ Len(DetailLines) = Len(samples)
        /\ \A k \in 1..Len(samples) :
              /\ DetailLines[k].unit = samples[k]
              /\ DetailLines[k].tag = "detail success" <=> results[samples[k]] = "success"
              /\ DetailLines[k].tag = "detail failed" <=> results[samples[k]] = "failed"

\* C12 witness: a summary listing a failed first unit and a successful second.
C12_Witness ==
    /\ SummaryPrinted
    /\ Len(DetailLines) = 2
    /\ DetailLines[1] = Line("detail failed", 1, 0)
    /\ DetailLines[2] = Line("detail success", 2, 0)

\* The outcome that unit j's own step results call for: Success when its
\* npm ci succeeded and the strategy command, if one ran, exited zero.
OwnOutcome(j) ==
    IF InstallSucceeded(j) /\ \A k \in StrategyRuns(j) : invoked[k].ok
    THEN "success" ELSE "failed"

\* C15: the recorded status of a unit j is a function of what two runs that
\* differ only in another unit's step results have in common: j's own step
\* results decide the status, and whether j is recorded at all when the run
\* ends depends only on the shell and on j's position.  Hence such runs agree
\* on every j # k.
C15_OutcomeDependsOnOwnSteps ==
    /\ \A j \in DOMAIN results : results[j] = OwnOutcome(j)
    /\ (Exited /\ OrchestrationStarted) =>
          DOMAIN results = (IF arithErrexit THEN {samples[1]} ELSE Units)

\* C15 witness: the first unit's install failed and the second unit, run
\* after it, is recorded as Success.
C15_Witness ==
    /\ Exited
    /\ Len(samples) = 2
    /\ InstallFailed(1)
    /\ InstallSucceeded(2)
    /\ GetResult(results, 2) = "success"

FirstPrinted(tag) ==
    IF Printed(tag) THEN CHOOSE k \in DOMAIN out :
                            out[k].tag = tag /\ \A j \in 1..(k - 1) : out[j].tag # tag
    ELSE 0

\* C17 (as claimed): a run exits 0 only after printing the all-successful
\* line, and a run that exits non-zero after units were attempted has printed
\* the summary and then the some-builds-failed line.
C17_ClosingLineMatchesExit ==
    /\ (Exited /\ status = 0) => Printed("All builds successful")
    /\ (Exited /\ status # 0 /\ Printed("Building")) =>
          /\ SummaryPrinted
          /\ Printed("Some builds failed")
          /\ FirstPrinted("BUILD SUMMARY") < FirstPrinted("Some builds failed")

\* C18 (as claimed): `npm run build` is run for a unit whose install succeeded
\* exactly when its manifest declares a script named build.
C18_BuildStrategyIffBuildScript ==
    \A s \in Units :
        InstallSucceeded(s) =>
            (Runs(s, "npm run build") # {} <=> DeclaresBuild(tree[s].manifest))

\* The install and strategy commands the script ran for unit s, with statuses.
ScriptSteps(s) ==
    { invoked[k] : k \in Runs(s, "npm ci") \cup StrategyRuns(s) }

\* The same for the workflow's job of unit s.
WfSteps(s) == { c \in wfLog : c.unit = s }

\* C13 (as claimed): when the script and the workflow ran over the same
\* discovered units with the same per-unit install/build results, they end
\* with the same per-unit statuses, the same counts and the same overall
\* success/failure signal.
C13_ScriptEqualsWorkflow ==
    (/\ Exited
     /\ OrchestrationStarted
     /\ wfPhase = "done"
     /\ WfUnits = Units
     /\ \A s \in Units : ScriptSteps(s) # {} /\ ScriptSteps(s) = WfSteps(s))
    => /\ \A s \in Units : GetResult(results, s) = GetResult(wfArtifacts, s)
       /\ successful = Cardinality({ s \in WfUnits : wfArtifacts[s] = "success" })
       /\ failed = Cardinality({ s \in WfUnits : wfArtifacts[s] = "failed" })
       /\ status = wfStatus

\* C14: in the workflow the summary stage is reached only after every unit's
\* job saved its result, it can run whether or not jobs failed, it fails the
\* workflow exactly when some saved result is a failure, and a job that has
\* not run yet can always still run, whatever the other jobs did.
C14_SummaryAfterAllJobs ==
    /\ (wfPhase = "done" /\ wfMatrix # <<>>) =>
          /\ \A s \in WfUnits : s \in DOMAIN wfArtifacts
          /\ wfStatus = 1 <=> \E s \in WfUnits : wfArtifacts[s] = "failed"
    /\ (wfPhase = "build" /\ \A s \in WfUnits : s \in DOMAIN wfArtifacts) =>
          ENABLED WfSummary
    /\ \A s \in WfUnits :
          (wfPhase = "build" /\ s \notin DOMAIN wfArtifacts) => ENABLED WfBuild(s)

\* C14 witness: the workflow ended red with one job's artifact a failure and
\* another job's a success.
C14_Witness ==
    /\ wfPhase = "done"
    /\ wfStatus = 1
    /\ \E s \in WfUnits, t \in WfUnits :
          wfArtifacts[s] = "failed" /\ wfArtifacts[t] = "success"

\* The directory of a manifest path: the path without its last component.
DirOf(p) == SubSeq(p, 1, Len(p) - 2)

\* The directories that directly hold a package.json and lie under no
\* node_modules directory.
UnitDirs(files) ==
    { DirOf(p) : p \in { q \in files : IsManifest(q) /\ ~UnderNodeModules(q) } }

\* C19 (as claimed): discovery yields exactly the directories that directly
\* hold a package.json and have no node_modules ancestor, each exactly once
\* and as a single identifier, whatever characters the path contains.
C19_DiscoveryExact ==
    findPc = "discovered" =>
        /\ { fsFound[k] : k \in DOMAIN fsFound } = UnitDirs(fsFiles)
        /\ \A i \in DOMAIN fsFound, j \in DOMAIN fsFound :
              fsFound[i] = fsFound[j] => i = j

\* C20 (as claimed): the files handed to the lenient type check are exactly
\* the unit's .ts files that lie in no node_modules directory at any depth,
\* and the existence test is decided by that same set.
C20_LenientFileSet ==
    findPc = "listed" =>
        LET wanted == { f \in ufFiles : \A i \in DOMAIN f : f[i] # "node_modules" }
        IN  /\ ufArgs = wanted
            /\ ufExists <=> wanted # {}

\* The root install was run and failed.
RootInstallFailed == \E k \in DOMAIN invoked : invoked[k] = Cmd(0, "npm ci", FALSE)

\* C21: when the root npm ci fails the script has ended with a non-zero
\* status; no unit was attempted (no banner, no command), no outcome is
\* recorded and the summary block is not printed.
C21_RootInstallFailureStops ==
    RootInstallFailed =>
        /\ Exited
        /\ status # 0
        /\ results = <<>>
        /\ ~SummaryPrinted
        /\ ~OrchestrationStarted
        /\ \A k \in DOMAIN invoked : invoked[k].unit = 0
        /\ \A s \in Units : ~PrintedFor("Building", s) /\ OutcomeMarks(s) = {}

\* C21 witness: two units were discovered and the root install failed.
C21_Witness ==
    /\ RootInstallFailed
    /\ Len(samples) = 2
    /\ Exited

\* The units whose entry in the results table is v.
UnitsWith(v) == { s \in DOMAIN results : results[s] = v }

SuccessMarked == { k \in DOMAIN DetailLines : DetailLines[k].tag = "detail success" }

RbLoopLeft == rbPc \in {"check user", "roles", "verify"} \/ (rbPc = "exited" /\ rbAnswers # <<>>)

\* C24: the principal-ID loop makes at most MAX_RETRIES queries; every query
\* but the last returned nothing usable; it ends at the first usable answer,
\* which becomes the ID, or after the MAX_RETRIES-th query with the ID empty;
\* the loop can always take its next step; and once it is left the script is
\* in the role-assignment phase, whether or not an ID was found.
C24_RetryLoopBounded ==
    /\ Len(rbAnswers) <= MAX_RETRIES
    /\ rbRetry <= MAX_RETRIES
    /\ \A k \in 1..(Len(rbAnswers) - 1) : rbAnswers[k] \in {"", "null"}
    /\ rbPc = "retry loop" => ENABLED (RbQueryPrincipal \/ RbLoopEnd)
    /\ RbLoopLeft =>
          /\ Len(rbAnswers) >= 1
          /\ \/ /\ rbAnswers[Len(rbAnswers)] \notin {"", "null"}
                /\ rbId = rbAnswers[Len(rbAnswers)]
             \/ /\ rbAnswers[Len(rbAnswers)] \in {"", "null"}
                /\ Len(rbAnswers) = MAX_RETRIES
                /\ rbId = ""
          /\ \E k \in DOMAIN rbOut : rbOut[k] = "Assigning RBAC roles"

\* C24 witness: three queries found nothing and the first role was assigned
\* all the same.
C24_Witness ==
    /\ Len(rbAnswers) = MAX_RETRIES
    /\ rbId = ""
    /\ rbAnswers[MAX_RETRIES] = "null"
    /\ \E k \in DOMAIN rbCalls : rbCalls[k] = RbCall("az role assignment create", 1, TRUE)

\* C25 (as claimed): a failed first `az role assignment create` for a role is
\* followed by the call with --assignee-principal-type User, and a failed
\* `az search service update --identity-type SystemAssigned` is followed by
\* the REST call, before the script gives up.
C25_FallbackAttempted ==
    rbPc = "exited" =>
        /\ \A k \in DOMAIN rbCalls :
              (rbCalls[k].cmd = "az role assignment create" /\ ~rbCalls[k].ok) =>
                  \E j \in DOMAIN rbCalls :
                      /\ j > k
                      /\ rbCalls[j].cmd = "az role assignment create --assignee-principal-type User"
                      /\ rbCalls[j].role = rbCalls[k].role
        /\ \A k \in DOMAIN rbCalls :
              (rbCalls[k].cmd = "az search service update --identity-type" /\ ~rbCalls[k].ok) =>
                  \E j \in DOMAIN rbCalls : j > k /\ rbCalls[j].cmd = "curl -X PATCH"

\* The real creation command was run.
CsCreateRun == \E k \in DOMAIN csCalls : csCalls[k].cmd = "az search service create"

\* The confirmation prompt was answered, and not with y or Y.
CsDeclined ==
    /\ \E k \in DOMAIN csOut : csOut[k] = "Configuration Summary"
    /\ csReply \notin {"y", "Y", "EOF"}

\* C26: the real `az search service create` runs only after a validation
\* whose output holds no "error" and a y or Y at the prompt; when the user
\* declines, the script exits 0 with no service created and no env file; and
\* sample-search.env exists only after the creation command succeeded.
C26_CreateOnlyAfterConsent ==
    /\ CsCreateRun =>
          /\ ~GrepQ(csValidation, <<"e", "r", "r", "o", "r">>)
          /\ csReply \in {"y", "Y"}
          /\ \E j \in DOMAIN csCalls, k \in DOMAIN csCalls :
                /\ j < k
                /\ csCalls[j].cmd = "az search service create --validate-only"
                /\ csCalls[k].cmd = "az search service create"
    /\ CsDeclined =>
          /\ csPc = "exited"
          /\ csStatus = 0
          /\ ~CsCreateRun
          /\ ~csService
          /\ ~csEnvFile
    /\ csService => \E k \in DOMAIN csCalls : csCalls[k] = CsCall("az search service create", TRUE)
    /\ csEnvFile => \E k \in DOMAIN csCalls : csCalls[k] = CsCall("az search service create", TRUE)

\* C26 witness: a validation answering in upper case passed, the user typed
\* Y and the env file was written.
C26_Witness ==
    /\ csValidation = TextUpperError
    /\ csReply = "Y"
    /\ csEnvFile
    /\ csStatus = 0

\* Positions in agLog of the requests with the given operation.
AgRequests(op) == { k \in DOMAIN agLog : agLog[k].op = op }

AgPrinted(line) == \E k \in DOMAIN agOut : agOut[k] = line

\* C27: a PUT of the agent is always directly preceded by a DELETE of the
\* agent that was answered OK or 404; a DELETE answered 404 and a deleteIndex
\* answered 404 or IndexNotFound do not make their step throw, every other
\* failed delete does; and once the PUT is answered OK the create-agent step
\* has succeeded, whether or not an agent existed before.
C27_DeleteBeforeCreate ==
    /\ \A k \in AgRequests("PUT agent") :
          /\ k > 1
          /\ agLog[k - 1].op = "DELETE agent"
          /\ agLog[k - 1].status \in {"ok", "404"}
    /\ \A k \in AgRequests("DELETE agent") :
          IF agLog[k].status \in {"ok", "404"}
          THEN k = Len(agLog) => agThrew = ""
          ELSE k = Len(agLog) /\ agThrew \in {"create agent", "delete agent"}
    /\ \A k \in AgRequests("deleteIndex") :
          /\ k = Len(agLog)
          /\ IF agLog[k].status \in {"ok", "404", "IndexNotFound"}
             THEN agThrew = "" /\ agExit = 0
             ELSE agThrew = "delete index"
    /\ (\E k \in AgRequests("PUT agent") : agLog[k].status = "ok") =>
          /\ agThrew # "create agent"
          /\ agPc # "create agent"

\* C27 witness: an agent existed, was deleted and created again, and at the
\* end the index was already gone.
C27_Witness ==
    /\ agPreexisting
    /\ \E k \in AgRequests("PUT agent") : agLog[k].status = "ok" /\ agLog[k - 1].status = "ok"
    /\ \E k \in AgRequests("deleteIndex") : agLog[k].status = "IndexNotFound"
    /\ agExit = 0

\* The fetch gave an array all of whose elements are objects.
FetchSucceeded(o) == o.kind = "array" /\ \A k \in DOMAIN o.docs : ~o.docs[k].isNull

\* C28: fetchEarthAtNightDocuments settles normally whatever the fetch gave:
\* uploadDocuments goes on to the upload, with the two fallback documents
\* after a network error, a non-OK status or an unusable body, and otherwise
\* with one document per fetched document, in order, each with an id that is
\* neither absent nor empty.
C28_FetchNeverRejects ==
    /\ agPc = "upload" =>
          LET o == agFetched[1]
          IN  /\ agThrew = ""
              /\ IF FetchSucceeded(o)
                 THEN /\ Len(agDocs) = Len(o.docs)
                      /\ \A k \in DOMAIN agDocs :
                            /\ agDocs[k].id \notin {Absent, JStr(""), JNum("0")}
                            /\ o.docs[k].id \notin {Absent, JStr(""), JNum("0")} =>
                                  agDocs[k].id = o.docs[k].id
                            /\ o.docs[k].id \in {Absent, JStr(""), JNum("0")} =>
                                  agDocs[k].id = JStr(IndexString(k))
                 ELSE agDocs = FallbackDocuments
    /\ agThrew = "upload documents" => agLog[Len(agLog)].op = "uploadDocuments"

\* C28 witness: two documents were fetched, the first without an id.
C28_Witness ==
    /\ agPc = "upload"
    /\ agFetched[1].kind = "array"
    /\ Len(agDocs) = 2
    /\ agFetched[1].docs[1].id = Absent
    /\ agDocs[1].id = JStr("1")
    /\ agDocs[2].id = JStr("doc-7")

IsPrefix(a, b) == Len(a) <= Len(b) /\ SubSeq(b, 1, Len(a)) = a

UserAssistantOnly(messages) ==
    SelectSeq(messages, LAMBDA m : m.role \in {"user", "assistant"})

\* The state part of C29: no list passed to callAgenticRetrieval holds a
\* system message; each is the user and assistant messages of a prefix of the
\* history, in history order; the history is system, user, then only user
\* and assistant messages.
C29_NoSystemSent ==
    /\ \A c \in DOMAIN agCalls :
          /\ \A k \in DOMAIN agCalls[c] : agCalls[c][k].role \in {"user", "assistant"}
          /\ \E n \in 0..Len(agHistory) :
                agCalls[c] = UserAssistantOnly(SubSeq(agHistory, 1, n))
    /\ Len(agCalls) >= 1 => agCalls[1] = <<agHistory[2]>>
    /\ Len(agCalls) >= 2 =>
          \E n \in 1..Len(agHistory) :
              /\ agHistory[n] = Message("user", FollowUpQuestion)
              /\ agCalls[2] = UserAssistantOnly(SubSeq(agHistory, 1, n))
    /\ agHistory # <<>> =>
          /\ agHistory[1].role = "system"
          /\ agHistory[2].role = "user"
          /\ \A k \in 3..Len(agHistory) : agHistory[k].role \in {"user", "assistant"}

\* C29: the state part above holds always, and every step leaves the history
\* as it was or adds messages at its end.
C29_HistoryAppendOnly ==
    /\ []C29_NoSystemSent
    /\ [][IsPrefix(agHistory, agHistory')]_vars

\* C29 witness: the follow-up call was made with the first question, the
\* synthesized answer, the comparison answer and the follow-up question.
C29_Witness ==
    /\ Len(agCalls) = 2
    /\ Len(agCalls[2]) = 4
    /\ Len(agHistory) = 6
    /\ agExit = 0

\* C30: main begins its steps in the order create index, upload documents,
\* create agent, run retrieval, delete agent, delete index; when a step has
\* thrown, no later step was begun (no cleanup either) and the process has
\* exited with code 1; the closing line is printed only after both deletions
\* completed, and then the exit code is 0.
C30_StepsInOrder ==
    /\ IsPrefix(agSteps, MainSteps)
    /\ agThrew # "" =>
          /\ agPc = "exited"
          /\ agExit = 1
          /\ agSteps[Len(agSteps)] = agThrew
          /\ ~AgPrinted("Quickstart completed successfully")
    /\ AgPrinted("Quickstart completed successfully") =>
          /\ agSteps = MainSteps
          /\ agThrew = ""
          /\ agExit = 0
          /\ \E j \in AgRequests("DELETE agent"), k \in AgRequests("deleteIndex") :
                /\ j < k
                /\ k = Len(agLog)
                /\ agLog[j].status \in {"ok", "404"}
                /\ agLog[k].status \in {"ok", "404", "IndexNotFound"}
                /\ \E r \in AgRequests("chat.completions") : r < j
    /\ agPc = "exited" => (agExit = 0 <=> AgPrinted("Quickstart completed successfully"))
    /\ agPc # "exited" => agExit = -1

\* C30 witness: the follow-up retrieval threw; the process exited with code 1
\* and the agent and the index were left behind.
C30_Witness ==
    /\ agThrew = "run retrieval"
    /\ agExit = 1
    /\ Len(agCalls) = 2
    /\ agAgent
    /\ agIndex
    /\ agSteps = SubSeq(MainSteps, 1, 4)

====
